---- MODULE Spec2Model ----
(***************************************************************************)
(* Crawl-and-persist pipeline of buenosaires_properties:                   *)
(*   src/argenprop/argenprop_improved.py  (crawl engine, checkpoint file)  *)
(*   src/db.py                            (SQLite store)                   *)
(*                                                                         *)
(* Encoding of Python values.  TLC cannot compare values of different      *)
(* types, so every column keeps one TLA+ type:                             *)
(*   numeric columns are integers; None is NULL, the string 'N/A' is NA    *)
(*   and the empty string '' is EMPTY (all three negative, real values     *)
(*   are >= 0); text columns are strings, None is the string "<null>".     *)
(*   A datetime is an integer tick; isoformat()/fromisoformat() is         *)
(*   lossless on it.  A price (column REAL) is an integer number of         *)
(*   1/PriceScale units, so that 100.4 is 1004; price_dollars is a whole   *)
(*   number of dollars and price_total_usd (column REAL) an integer number *)
(*   of 1/UsdUnit dollars, which is exact.  A URL of the listing site is   *)
(*   the record                                                            *)
(*   [q |-> query name, p |-> index in the query's page chain].            *)
(***************************************************************************)
EXTENDS Integers, Sequences, FiniteSets, TLC

\* ------------------------------------------------------------------ bounds
MaxRuns == 2
MaxSitePages == 2
MaxStoreOps == 3
MaxClock == 2
MaxLiveRuns == 1
MaxFailed == 10
MaxArchives == 2
MaxMessages == 12

\* ------------------------------------------------------- program constants
PESO_TO_USD == 1500
max_retries == 3
retry_delay_default == 5
SaveEvery == 10
max_messages == 10

TicksPerDay == 2
PriceScale == 10
dollarblue == 1200
UsdUnit == dollarblue * PriceScale
NULL == -1
NA == -2
EMPTY == -3
NullStr == "<null>"
website == "argenprop"

\* queries.yaml: the configured searches (name stands for neighborhoods/bedrooms)
QueryNames == {"A", "B"}

None == [none |-> TRUE]
Corrupt == [corrupt |-> TRUE]

\* ---------------------------------------------------------------- the site
build_query_url(name) == [q |-> name, p |-> 1]

\* parse_listing output for the listing fragments the site serves.
\* bad = TRUE: the price text holds no digit, int('') raises ValueError.
Frag(addr, cur, price, exps, size, bed, bath, lurl, desc, bad) ==
    [address |-> addr, currency |-> cur, price |-> price, expenses |-> exps,
     size |-> size, bedrooms |-> bed, bathrooms |-> bath,
     listing_url |-> lurl, description |-> desc, bad |-> bad]

\* what parse_listing gives as the address of a fragment without one
NoAddress == "N/A"

F1 == Frag("X", "$", 150000 * PriceScale, 30000, 95, 3, 2, "l1", "d1", FALSE)
F2 == Frag("X", "USD", 900 * PriceScale, NA, NA, NA, NA, "l2", "d2", FALSE)
F3 == Frag(NoAddress, "", EMPTY, 1200, 80, 2, NA, "N/A", NullStr, FALSE)
F4 == Frag("Y", "$", EMPTY, NA, NA, NA, NA, "l4", "d4", TRUE)

SiteListings(u) ==
    CASE u = [q |-> "A", p |-> 1] -> <<F4, F1>>
      [] u = [q |-> "A", p |-> 2] -> <<F2>>
      [] u = [q |-> "B", p |-> 1] -> <<F3>>
      [] OTHER -> <<F4>>

\* a next-page lookup that gives the URL of the page it is given
getnextpage_stays(soup) ==
    IF soup.hasNext THEN soup.url ELSE None

\* getnextpage: base_url + href of the 'Siguiente' anchor, None without one
getnextpage(soup) ==
    IF soup.hasNext THEN [q |-> soup.url.q, p |-> soup.url.p + 1] ELSE None

\* ---------------------------------------------------------------- the store
\* Python round(): nearest integer, ties to the even one
RoundDiv(n, d) ==
    LET q == n \div d
        r == n % d
    IN  IF 2 * r < d THEN q
        ELSE IF 2 * r > d THEN q + 1
        ELSE IF q % 2 = 0 THEN q ELSE q + 1

\* a normalization that takes every price for dollars
calculate_price_dollars_no_rate(currency, price) ==
    IF price <= 0 THEN NULL ELSE RoundDiv(price, PriceScale)

\* calculate_price_dollars: None for a price that is None, '' or 0
calculate_price_dollars(currency, price) ==
    IF price <= 0 THEN NULL
    ELSE IF currency = "$" THEN RoundDiv(price, PESO_TO_USD * PriceScale)
    ELSE RoundDiv(price, PriceScale)

\* the upper-cased address, for the addresses of this model
Fold(address) == IF address = "x" THEN "X" ELSE address

\* a lookup that compares addresses without regard to case
RowsByAddress_nocase(props, address) ==
    {i \in 1..Len(props) : Fold(props[i].address) = Fold(address)}

\* WHERE address = ?: the rows whose address is the very string given
RowsByAddress(props, address) ==
    {i \in 1..Len(props) : props[i].address = address}

\* an UPDATE that also rewrites the first-seen timestamp
UpdateRow_overwrites_timestamp(row, d, qid, t) ==
    [row EXCEPT !.currency = d.currency, !.price = d.price,
                !.price_dollars = calculate_price_dollars(d.currency, d.price),
                !.expenses = d.expenses, !.size = d.size,
                !.bedrooms = d.bedrooms, !.bathrooms = d.bathrooms,
                !.listing_url = d.listing_url, !.website = d.website,
                !.url = d.url, !.description = d.description,
                !.timestamp = t, !.last_updated = t, !.query_id = qid]

\* an UPDATE that also puts the filter columns back to their defaults
UpdateRow_resets_filter(row, d, qid, t) ==
    [row EXCEPT !.currency = d.currency, !.price = d.price,
                !.price_dollars = calculate_price_dollars(d.currency, d.price),
                !.expenses = d.expenses, !.size = d.size,
                !.bedrooms = d.bedrooms, !.bathrooms = d.bathrooms,
                !.listing_url = d.listing_url, !.website = d.website,
                !.url = d.url, !.description = d.description,
                !.last_updated = t, !.query_id = qid,
                !.is_filtered = FALSE, !.filtered_at = NULL,
                !.price_total_usd = NULL]

\* an UPDATE that also clears the path of the archived snapshot
UpdateRow_clears_archived_path(row, d, qid, t) ==
    [row EXCEPT !.currency = d.currency, !.price = d.price,
                !.price_dollars = calculate_price_dollars(d.currency, d.price),
                !.expenses = d.expenses, !.size = d.size,
                !.bedrooms = d.bedrooms, !.bathrooms = d.bathrooms,
                !.listing_url = d.listing_url, !.website = d.website,
                !.url = d.url, !.description = d.description,
                !.last_updated = t, !.query_id = qid,
                !.archived_path = None]

\* the UPDATE ... WHERE address = ? branch
UpdateRow(row, d, qid, t) ==
    [row EXCEPT !.currency = d.currency, !.price = d.price,
                !.price_dollars = calculate_price_dollars(d.currency, d.price),
                !.expenses = d.expenses, !.size = d.size,
                !.bedrooms = d.bedrooms, !.bathrooms = d.bathrooms,
                !.listing_url = d.listing_url, !.website = d.website,
                !.url = d.url, !.description = d.description,
                !.last_updated = t, !.query_id = qid]

\* the INSERT branch; id is AUTOINCREMENT, no row is ever deleted
InsertRow(props, d, qid, t) ==
    [id |-> Len(props) + 1, address |-> d.address, currency |-> d.currency,
     price |-> d.price,
     price_dollars |-> calculate_price_dollars(d.currency, d.price),
     expenses |-> d.expenses, size |-> d.size, bedrooms |-> d.bedrooms,
     bathrooms |-> d.bathrooms, listing_url |-> d.listing_url,
     website |-> d.website, url |-> d.url, description |-> d.description,
     timestamp |-> IF d.timestamp = NULL THEN t ELSE d.timestamp,
     last_updated |-> t, query_id |-> qid,
     price_total_usd |-> NULL, is_filtered |-> FALSE, filtered_at |-> NULL,
     archived_path |-> None]

\* an upsert that does not look at the address it is given
upsert_property_unvalidated(props, d, qid, t) ==
    IF RowsByAddress(props, d.address) # {} THEN
        LET i == CHOOSE j \in RowsByAddress(props, d.address) : TRUE
        IN  [ok |-> TRUE,
             props |-> [props EXCEPT ![i] = UpdateRow(props[i], d, qid, t)],
             is_new |-> FALSE, id |-> props[i].id]
    ELSE
        [ok |-> TRUE, props |-> Append(props, InsertRow(props, d, qid, t)),
         is_new |-> TRUE, id |-> Len(props) + 1]

\* an upsert written as INSERT OR REPLACE: the row of the address is deleted
\* and a new one, with a new id, is inserted
upsert_property_replace(props, d, qid, t) ==
    IF d.address = "" \/ d.address = NullStr THEN
        [ok |-> FALSE, props |-> props, is_new |-> FALSE, id |-> NULL]
    ELSE
        [ok |-> TRUE,
         props |-> Append(SelectSeq(props, LAMBDA r : r.address # d.address),
                          InsertRow(props, d, qid, t)),
         is_new |-> RowsByAddress(props, d.address) = {},
         id |-> Len(props) + 1]

\* an upsert that returns cursor.lastrowid on both branches: after an UPDATE
\* that is the id of the latest INSERT of the connection, here none
upsert_property_lastrowid(props, d, qid, t) ==
    IF d.address = "" \/ d.address = NullStr THEN
        [ok |-> FALSE, props |-> props, is_new |-> FALSE, id |-> NULL]
    ELSE IF RowsByAddress(props, d.address) # {} THEN
        LET i == CHOOSE j \in RowsByAddress(props, d.address) : TRUE
        IN  [ok |-> TRUE,
             props |-> [props EXCEPT ![i] = UpdateRow(props[i], d, qid, t)],
             is_new |-> FALSE, id |-> 0]
    ELSE
        [ok |-> TRUE, props |-> Append(props, InsertRow(props, d, qid, t)),
         is_new |-> TRUE, id |-> Len(props) + 1]

\* upsert_property: [ok, props, is_new, id]; ok = FALSE is the ValueError
\* raised for an address that is None or ''
upsert_property(props, d, qid, t) ==
    IF d.address = "" \/ d.address = NullStr THEN
        [ok |-> FALSE, props |-> props, is_new |-> FALSE, id |-> NULL]
    ELSE IF RowsByAddress(props, d.address) # {} THEN
        LET i == CHOOSE j \in RowsByAddress(props, d.address) : TRUE
        IN  [ok |-> TRUE,
             props |-> [props EXCEPT ![i] = UpdateRow(props[i], d, qid, t)],
             is_new |-> FALSE, id |-> props[i].id]
    ELSE
        [ok |-> TRUE, props |-> Append(props, InsertRow(props, d, qid, t)),
         is_new |-> TRUE, id |-> Len(props) + 1]

\* add_query: INSERT INTO queries, id is AUTOINCREMENT
add_query(qs, name) ==
    Append(qs, [id |-> Len(qs) + 1, name |-> name, last_run |-> NULL])

\* get_query_by_name: fetchone() of SELECT ... WHERE name = ?, None without a row
get_query_by_name(qs, name) ==
    LET hits == {i \in 1..Len(qs) : qs[i].name = name}
    IN  IF hits = {} THEN None
        ELSE qs[CHOOSE i \in hits : \A j \in hits : i <= j]

\* an update of last_run that writes nothing
update_query_last_run_nothing(qs, qid, t) == qs

\* update_query_last_run: UPDATE queries SET last_run = ? WHERE id = ?
update_query_last_run(qs, qid, t) ==
    [i \in 1..Len(qs) |->
        IF qs[i].id = qid THEN [qs[i] EXCEPT !.last_run = t] ELSE qs[i]]

\* a status update that never writes filtered_at
update_property_filtered_status_no_stamp(props, id, is_filtered, price_total_usd, t) ==
    [i \in 1..Len(props) |->
        IF props[i].id # id THEN props[i]
        ELSE [props[i] EXCEPT !.is_filtered = is_filtered,
                              !.price_total_usd = price_total_usd]]

\* update_property_filtered_status: filtered_at is written only when the
\* property passes
update_property_filtered_status(props, id, is_filtered, price_total_usd, t) ==
    [i \in 1..Len(props) |->
        IF props[i].id # id THEN props[i]
        ELSE IF is_filtered
        THEN [props[i] EXCEPT !.is_filtered = TRUE, !.filtered_at = t,
                              !.price_total_usd = price_total_usd]
        ELSE [props[i] EXCEPT !.is_filtered = FALSE,
                              !.price_total_usd = price_total_usd]]

\* a reset that clears the total price too
reset_filtered_status_clears_total(props) ==
    [i \in 1..Len(props) |->
        [props[i] EXCEPT !.is_filtered = FALSE, !.filtered_at = NULL,
                         !.price_total_usd = NULL]]

\* reset_filtered_status: UPDATE properties SET is_filtered = 0,
\* filtered_at = NULL
reset_filtered_status(props) ==
    [i \in 1..Len(props) |->
        [props[i] EXCEPT !.is_filtered = FALSE, !.filtered_at = NULL]]

\* calculate_price_total_usd, exact, in 1/UsdUnit dollars: None for a price
\* that is None or 0
calculate_price_total_usd(currency, price, expenses) ==
    IF price <= 0 THEN NULL
    ELSE IF currency = "$" THEN price + expenses * PriceScale
    ELSE price * dollarblue + expenses * PriceScale

\* .date() of a datetime, strftime('%Y%m%d')
DayOf(t) == t \div TicksPerDay

\* a test without the date filter
passes_filters_any_date(prop, price_total_usd, t) ==
    /\ ~(prop.size # NULL /\ prop.size < 90)
    /\ ~(price_total_usd = NULL \/ price_total_usd < 300 * UsdUnit
                                \/ price_total_usd > 1500 * UsdUnit)

\* the three filters of apply_filters: size, total price, date
passes_filters(prop, price_total_usd, t) ==
    /\ ~(prop.size # NULL /\ prop.size < 90)
    /\ ~(price_total_usd = NULL \/ price_total_usd < 300 * UsdUnit
                                \/ price_total_usd > 1500 * UsdUnit)
    /\ DayOf(prop.timestamp) = DayOf(t)

\* a pass that adds the price to the total the record already has
apply_filters_adds_to_total(props, t) ==
    LET all == reset_filtered_status(props)
        upd[k \in 0..Len(all)] ==
            IF k = 0 THEN all
            ELSE LET prop == all[k]
                     total == calculate_price_total_usd(prop.currency,
                                  prop.price,
                                  IF prop.expenses = NULL THEN 0
                                  ELSE prop.expenses)
                     price_total_usd ==
                         IF total = NULL \/ prop.price_total_usd = NULL
                         THEN total ELSE total + prop.price_total_usd
                 IN  update_property_filtered_status(upd[k - 1], prop.id,
                         passes_filters(prop, price_total_usd, t),
                         price_total_usd, t)
    IN  upd[Len(all)]

\* apply_filters: the reset, then one status update for every record read
\* after the reset
apply_filters(props, t) ==
    LET all == reset_filtered_status(props)
        upd[k \in 0..Len(all)] ==
            IF k = 0 THEN all
            ELSE LET prop == all[k]
                     price_total_usd ==
                         calculate_price_total_usd(prop.currency, prop.price,
                             IF prop.expenses = NULL THEN 0
                             ELSE prop.expenses)
                 IN  update_property_filtered_status(upd[k - 1], prop.id,
                         passes_filters(prop, price_total_usd, t),
                         price_total_usd, t)
    IN  upd[Len(all)]

\* get_property_by_address: fetchone() of SELECT * ... WHERE address = ?
get_property_by_address(props, address) ==
    IF RowsByAddress(props, address) = {} THEN None
    ELSE props[CHOOSE i \in RowsByAddress(props, address) : TRUE]

\* SetArchivedPath(id, path) of the store
update_archived_path(props, id, path) ==
    [i \in 1..Len(props) |->
        IF props[i].id = id THEN [props[i] EXCEPT !.archived_path = path]
        ELSE props[i]]

\* ------------------------------------------------------------- the archiver
sanitize_filename(name) == IF name = "N/A" THEN "N_A" ELSE name

\* relative path of the snapshot written by archive_property_page
archive_path(id, address, date_scraped) ==
    [id |-> id, address |-> sanitize_filename(address),
     date |-> DayOf(date_scraped)]

\* a lookup that builds the directory name from the address as given
get_archive_path_unsanitized(files, property_id, address, date_scraped) ==
    LET html_path == [id |-> property_id, address |-> address,
                      date |-> DayOf(date_scraped)]
    IN  IF html_path \in files THEN html_path ELSE None

\* get_archive_path: the relative path of index.html in the directory named
\* by id, sanitized address and date, if that file exists
get_archive_path(files, property_id, address, date_scraped) ==
    LET date_str == DayOf(date_scraped)
        safe_address == sanitize_filename(address)
        html_path == [id |-> property_id, address |-> safe_address,
                      date |-> date_str]
    IN  IF html_path \in files THEN html_path ELSE None

\* ------------------------------------------------------- the checkpoint file
\* a cursor that names the page after the one given
save_progress_next_page(page, u, qid, t) ==
    [last_page |-> page + 1, last_url |-> [u EXCEPT !.p = u.p + 1],
     query_id |-> qid, timestamp |-> t]

\* save_progress: json.dump of the cursor, overwriting the file
save_progress(page, u, qid, t) ==
    [last_page |-> page, last_url |-> u, query_id |-> qid, timestamp |-> t]

\* load_progress: the parsed file, None when absent or unreadable
load_progress(file) ==
    IF file = None \/ file = Corrupt THEN None ELSE file

\* a resume test that never resumes
resumes_never(prog, qid) == FALSE

\* the resume test of main: progress and progress.get('query_id') == query_id
resumes(prog, qid) == prog # None /\ prog.query_id = qid

\* a fresh start that leaves the stale file in place
fresh_progress_kept(file) == file

\* a fresh start: os.path.exists(progress_file_path) then os.remove
fresh_progress(file) == None

\* a finally clause that removes nothing
finally_progress_kept(file, how) == file

\* a finally clause that keeps the file of a run stopped by max-pages
finally_progress_kept_on_max_pages(file, how) ==
    IF how = "maxpages" THEN file ELSE None

\* the finally clause of main: os.path.exists then os.remove, whatever
\* ended the page loop
finally_progress(file, how) == None

\* ------------------------------------------------------------ the crawl run
\* a retry test that gives up one attempt early
may_retry_one_less(att) == att < max_retries - 2

\* a retry test that never retries
may_retry_never(att) == FALSE

\* getdata_with_retry: attempt < max_retries - 1 sleeps and retries
may_retry(att) == att < max_retries - 1

\* a backoff that waits the same delay before every retry
backoff_constant(delay) == delay

\* retry_delay *= 2 after each sleep
backoff(delay) == delay * 2

\* a count of every upsert, new or not
count_every(n, is_new) == n + 1

\* if is_new: new_count += 1
count_new(n, is_new) == IF is_new THEN n + 1 ELSE n

\* an upsert whose INSERT is undone when the code after it fails
rolled_back(before, after) == before

\* conn.commit() at the end of upsert_property: what follows the call in the
\* listing loop does not undo it
committed(before, after) == after

\* a listing loop that leaves the page at the first listing that raises
break_after_error(i, n) == n + 1

\* except Exception: log, continue: the loop goes on with the next listing
continue_after_error(i, n) == i + 1

\* a coercion that gives None for missing expenses too
coerce_expenses_none(frag, u, t) ==
    [address |-> frag.address, currency |-> frag.currency,
     price |-> frag.price,
     expenses |-> IF frag.expenses # NA THEN frag.expenses ELSE NULL,
     size |-> IF frag.size # NA THEN frag.size ELSE NULL,
     bedrooms |-> IF frag.bedrooms # NA THEN frag.bedrooms ELSE NULL,
     bathrooms |-> IF frag.bathrooms # NA THEN frag.bathrooms ELSE NULL,
     listing_url |-> frag.listing_url, website |-> website, url |-> u,
     description |-> frag.description, timestamp |-> t]

\* a coercion that gives 0 for every missing number, as it does for expenses
coerce_missing_is_zero(frag, u, t) ==
    [address |-> frag.address, currency |-> frag.currency,
     price |-> frag.price,
     expenses |-> IF frag.expenses # NA THEN frag.expenses ELSE 0,
     size |-> IF frag.size # NA THEN frag.size ELSE 0,
     bedrooms |-> IF frag.bedrooms # NA THEN frag.bedrooms ELSE 0,
     bathrooms |-> IF frag.bathrooms # NA THEN frag.bathrooms ELSE 0,
     listing_url |-> frag.listing_url, website |-> website, url |-> u,
     description |-> frag.description, timestamp |-> t]

\* string placeholders to numbers: 'N/A' is None, for expenses it is 0
coerce(frag, u, t) ==
    [address |-> frag.address, currency |-> frag.currency,
     price |-> frag.price,
     expenses |-> IF frag.expenses # NA THEN frag.expenses ELSE 0,
     size |-> IF frag.size # NA THEN frag.size ELSE NULL,
     bedrooms |-> IF frag.bedrooms # NA THEN frag.bedrooms ELSE NULL,
     bathrooms |-> IF frag.bathrooms # NA THEN frag.bathrooms ELSE NULL,
     listing_url |-> frag.listing_url, website |-> website, url |-> u,
     description |-> frag.description, timestamp |-> t]

\* a max-pages test that never stops the loop
reached_max_pages_never(mp, page) == FALSE

\* if args.max_pages and page_num >= args.max_pages: break
reached_max_pages(mp, page) == mp # 0 /\ page >= mp

\* an archiving of every record the upsert touched
archives_when_upserted(is_new) == TRUE

\* if is_new: ... archive.archive_property_page(...)
archives_when(is_new) == is_new

\* an except clause that re-raises without saving
except_clause_no_save(file, page, u, qid, t, e) ==
    [progress |-> file, err |-> e]

\* except Exception as e: save_progress(page_num, url, query_id), raise
except_clause(file, page, u, qid, t, e) ==
    [progress |-> save_progress(page, u, qid, t), err |-> e]

VARIABLES
    queries,        \* table queries
    properties,     \* table properties
    progress,       \* argenprop_progress.json: None, Corrupt or the cursor
    now,            \* the wall clock
    pc,             \* position of the crawl process
    runs,           \* crawl processes started so far
    sel,            \* selected_query['name']
    max_pages,      \* args.max_pages, 0 when not given
    query_id, url, page_num, total_listings,
    attempt, retry_delay,           \* locals of getdata_with_retry
    data,           \* the fetched page
    li, new_count,  \* listing loop
    err,            \* the exception being propagated
    startProgress,  \* the checkpoint file as the run found it
    firstFetch,     \* url and page number of the run's first driver.get
    tries, slept,   \* driver.get calls and delays slept, this page
    last,           \* how the most recent ended run ended: for exhausted
                    \* retries the page it failed on, for max-pages
                    \* whether the site had a further page
    persisted,      \* URLs whose listings were all processed by some run
    seen,           \* per address: first written timestamp, latest input
    ops,            \* direct store calls made so far
    ret,            \* the latest direct call of the store: which one,
                    \* what it was given and, for upsert_property, what
                    \* it returned, for apply_filters when it ran and
                    \* whether the call before it was apply_filters on the
                    \* same day; None before the first call
    arch,           \* what archive_property_page did for the listing just
                    \* handled: None when it was not called, else the id it
                    \* was given and the path it returned (None for a failure)
    base,           \* number of records in the store when the run started
    fetched,        \* the pages the run has got from getdata_with_retry
                    \* (driver.get returned), in order: url, page number
                    \* and the next-page link the site put in the page
    \* fix_geocoding.main
    cache,          \* the dict loaded from CACHE_FILE: address -> location
    geocache,       \* CACHE_FILE as last written by save_geocache
    futures,        \* future_to_addr: per failed address "running", "done"
                    \* or "yielded" (handed out by as_completed)
    found,          \* the addresses the geocoder has a location for
    success_count, still_failed_count,
    cache_lock,     \* TRUE while the lock is held
    gpc,            \* position of the main thread
    future,         \* the address of the future being handled
    \* archive.py
    links,          \* the index.html files under buckets/links
    returned,       \* what each successful archive_property_page was asked
                    \* and the path it returned
    requests,       \* session.get(listing_url) calls made so far
    aret,           \* the latest call of the archiver and its result
    \* alerts.send_messages_batch
    messages,       \* len(messages)
    attempts,       \* the bot.send_message calls made: text and outcome
    apc,            \* position of the coroutine
    mi              \* index of the listing loop

runVars == <<pc, sel, max_pages, query_id, url, page_num, total_listings,
             attempt, retry_delay, data, li, new_count, err>>
ghostVars == <<startProgress, firstFetch, tries, slept, last, persisted, seen,
               arch, base, fetched>>
geoVars == <<cache, geocache, futures, found, success_count,
             still_failed_count, cache_lock, gpc, future>>
archVars == <<links, returned, requests, aret>>
alertVars == <<messages, attempts, apc, mi>>
jobVars == <<geoVars, archVars, alertVars>>
crawlVars == <<queries, properties, progress, now, runs, runVars, ghostVars,
               ops, ret>>
vars == <<crawlVars, jobVars>>

Addresses == {"X", "x", "Y", "N/A"}

NoRun ==
    /\ pc = "idle" /\ sel = "" /\ max_pages = 0 /\ query_id = NULL
    /\ url = None /\ page_num = 0 /\ total_listings = 0
    /\ attempt = 0 /\ retry_delay = 0 /\ data = None /\ li = 0
    /\ new_count = 0 /\ err = "none"

Init ==
    /\ queries = <<>>
    /\ properties = <<>>
    /\ progress = None
    /\ now = 0
    /\ runs = 0
    /\ NoRun
    /\ startProgress = None /\ firstFetch = None /\ tries = 0 /\ slept = <<>>
    /\ last = [exit |-> "none", query_id |-> NULL, page_num |-> 0, url |-> None,
               more |-> FALSE]
    /\ persisted = {}
    /\ seen = [a \in Addresses |-> None]
    /\ ops = 0
    /\ ret = None
    /\ arch = None /\ base = 0 /\ fetched = <<>>
    /\ cache = <<>> /\ geocache = <<>> /\ futures = <<>> /\ found = {}
    /\ success_count = 0 /\ still_failed_count = 0
    /\ cache_lock = FALSE /\ gpc = "idle" /\ future = NULL
    /\ links = {} /\ returned = {} /\ requests = 0 /\ aret = None
    /\ messages = 0 /\ attempts = <<>> /\ apc = "idle" /\ mi = 0

\* the process is gone: its locals with it
EndRun(how) ==
    /\ last' = [exit |-> how, query_id |-> query_id,
                page_num |-> IF how = "retries" THEN page_num ELSE 0,
                url |-> IF how = "retries" THEN url ELSE None,
                more |-> (how = "maxpages" /\ data.hasNext)]
    /\ pc' = "idle" /\ sel' = "" /\ max_pages' = 0 /\ query_id' = NULL
    /\ url' = None /\ page_num' = 0 /\ total_listings' = 0
    /\ attempt' = 0 /\ retry_delay' = 0 /\ data' = None /\ li' = 0
    /\ new_count' = 0 /\ err' = "none"
    /\ startProgress' = None /\ firstFetch' = None
    /\ tries' = 0 /\ slept' = <<>>
    /\ arch' = None /\ base' = 0 /\ fetched' = <<>>

\* history of an address: the timestamp and input of its first upsert, the
\* input and query of its latest one
Seen(old, d, qid) ==
    IF d.address \notin Addresses THEN old
    ELSE [old EXCEPT ![d.address] =
            IF old[d.address] = None
            THEN [ts |-> IF d.timestamp = NULL THEN now ELSE d.timestamp,
                  first |-> d, inp |-> d, qid |-> qid]
            ELSE [old[d.address] EXCEPT !.inp = d, !.qid = qid]]

\* backfill.py: a query row is created for a name that has none
CreateQuery(name) ==
    /\ pc = "idle"
    /\ get_query_by_name(queries, name) = None
    /\ queries' = add_query(queries, name)
    /\ UNCHANGED jobVars
    /\ UNCHANGED <<properties, progress, now, runs, runVars, ghostVars, ops, ret>>

\* main up to the page loop: the query row, then the resume decision.
\* db.add_query takes no query_number/map_name keyword: for a name without a
\* row the call raises TypeError and the process ends before any crawling.
StartRun(name, mp) ==
    /\ pc = "idle"
    /\ runs < MaxRuns
    /\ runs' = runs + 1
    /\ now' = now + 1
    /\ LET query_record == get_query_by_name(queries, name)
           loaded == load_progress(progress)
       IN  IF query_record = None THEN
               /\ last' = [exit |-> "typeerror", query_id |-> NULL,
                           page_num |-> 0, url |-> None, more |-> FALSE]
               /\ UNCHANGED <<progress, runVars, startProgress, firstFetch,
                              tries, slept, base>>
           ELSE
               /\ pc' = "fetch"
               /\ sel' = name
               /\ max_pages' = mp
               /\ query_id' = query_record.id
               /\ IF resumes(loaded, query_record.id) THEN
                      /\ url' = loaded.last_url
                      /\ page_num' = loaded.last_page
                      /\ progress' = progress
                  ELSE
                      /\ url' = build_query_url(name)
                      /\ page_num' = 1
                      /\ progress' = fresh_progress(progress)
               /\ total_listings' = 0
               /\ attempt' = 0
               /\ retry_delay' = retry_delay_default
               /\ startProgress' = progress
               /\ base' = Len(properties)
               /\ firstFetch' = None
               /\ tries' = 0
               /\ slept' = <<>>
               /\ UNCHANGED <<data, li, new_count, err, last>>
    /\ UNCHANGED jobVars
    /\ UNCHANGED <<queries, properties, persisted, seen, ops, ret, arch,
                   fetched>>

\* one pass of the for loop of getdata_with_retry: driver.get succeeds
FetchOk(hasNext) ==
    /\ pc = "fetch"
    /\ hasNext => url.p < MaxSitePages
    /\ data' = [url |-> url, hasNext |-> hasNext, listings |-> SiteListings(url)]
    /\ tries' = tries + 1
    /\ firstFetch' = IF firstFetch = None
                     THEN [url |-> url, page |-> page_num] ELSE firstFetch
    /\ fetched' = Append(fetched,
                         [url |-> url, page |-> page_num,
                          next |-> IF hasNext THEN [url EXCEPT !.p = url.p + 1]
                                   ELSE None])
    /\ pc' = "listings"
    /\ li' = 1
    /\ new_count' = 0
    /\ UNCHANGED jobVars
    /\ UNCHANGED <<queries, properties, progress, now, runs, sel, max_pages,
                   query_id, url, page_num, total_listings, attempt,
                   retry_delay, err, startProgress, slept, last, persisted,
                   seen, ops, ret, arch, base>>

\* driver.get raises WebDriverException or TimeoutException
FetchTransient ==
    /\ pc = "fetch"
    /\ tries' = tries + 1
    /\ firstFetch' = IF firstFetch = None
                     THEN [url |-> url, page |-> page_num] ELSE firstFetch
    /\ IF may_retry(attempt) THEN
           /\ slept' = Append(slept, retry_delay)
           /\ retry_delay' = backoff(retry_delay)
           /\ attempt' = attempt + 1
           /\ IF attempt + 1 < max_retries
              THEN pc' = "fetch" /\ err' = err
              ELSE pc' = "except" /\ err' = "nodata"
       ELSE
           /\ pc' = "except"
           /\ err' = "retries"
           /\ UNCHANGED <<slept, retry_delay, attempt>>
    /\ UNCHANGED jobVars
    /\ UNCHANGED <<queries, properties, progress, now, runs, sel, max_pages,
                   query_id, url, page_num, total_listings, data, li,
                   new_count, startProgress, last, persisted, seen, ops, ret, arch, base, fetched>>

\* any other exception of the fetch is not retried
FetchOther ==
    /\ pc = "fetch"
    /\ tries' = tries + 1
    /\ firstFetch' = IF firstFetch = None
                     THEN [url |-> url, page |-> page_num] ELSE firstFetch
    /\ pc' = "except"
    /\ err' = "other"
    /\ UNCHANGED jobVars
    /\ UNCHANGED <<queries, properties, progress, now, runs, sel, max_pages,
                   query_id, url, page_num, total_listings, attempt,
                   retry_delay, data, li, new_count, startProgress, slept,
                   last, persisted, seen, ops, ret, arch, base, fetched>>

\* one listing of the page: parse, coerce, upsert, archive when new; an
\* exception of any of them is logged and the loop continues
ProcessListing(outcome) ==
    /\ pc = "listings"
    /\ li <= Len(data.listings)
    /\ LET frag == data.listings[li]
           d == coerce(frag, url, now)
           r == upsert_property(properties, d, query_id, now)
           path == archive_path(r.id, d.address, d.timestamp)
       IN  IF frag.bad \/ ~r.ok THEN
               /\ outcome = "none"
               /\ li' = continue_after_error(li, Len(data.listings))
               /\ arch' = None
               /\ UNCHANGED <<properties, new_count, seen>>
           ELSE IF ~archives_when(r.is_new) THEN
               /\ outcome = "none"
               /\ li' = li + 1
               /\ seen' = Seen(seen, d, query_id)
               /\ new_count' = count_new(new_count, r.is_new)
               /\ properties' = r.props
               /\ arch' = None
           ELSE
               /\ seen' = Seen(seen, d, query_id)
               /\ new_count' = count_new(new_count, r.is_new)
               /\ CASE outcome = "path" ->
                        /\ li' = li + 1
                        /\ properties' =
                              update_archived_path(r.props, r.id, path)
                        /\ arch' = [id |-> r.id, path |-> path]
                   [] outcome = "none" ->
                        /\ li' = li + 1
                        /\ properties' = committed(properties, r.props)
                        /\ arch' = [id |-> r.id, path |-> None]
                   [] outcome = "raise" ->
                        /\ li' = continue_after_error(li, Len(data.listings))
                        /\ properties' = committed(properties, r.props)
                        /\ arch' = [id |-> r.id, path |-> None]
    /\ UNCHANGED jobVars
    /\ UNCHANGED <<queries, progress, now, runs, pc, sel, max_pages, query_id,
                   url, page_num, total_listings, attempt, retry_delay, data,
                   err, startProgress, firstFetch, tries, slept, last,
                   persisted, ops, ret, base, fetched>>

\* the page is complete: total_listings += new_count, save_progress
SaveProgress ==
    /\ pc = "listings"
    /\ li > Len(data.listings)
    /\ total_listings' = total_listings + new_count
    /\ progress' = save_progress(page_num, url, query_id, now)
    /\ persisted' = persisted \cup {url}
    /\ pc' = "lastrun"
    /\ UNCHANGED jobVars
    /\ UNCHANGED <<queries, properties, now, runs, sel, max_pages, query_id,
                   url, page_num, attempt, retry_delay, data, li, new_count,
                   err, startProgress, firstFetch, tries, slept, last, seen,
                   ops, ret, arch, base, fetched>>

\* db.update_query_last_run(query_id)
TouchLastRun ==
    /\ pc = "lastrun"
    /\ queries' = update_query_last_run(queries, query_id, now)
    /\ pc' = "next"
    /\ UNCHANGED jobVars
    /\ UNCHANGED <<properties, progress, now, runs, sel, max_pages, query_id,
                   url, page_num, total_listings, attempt, retry_delay, data,
                   li, new_count, err, startProgress, firstFetch, tries, slept,
                   last, persisted, seen, ops, ret, arch, base, fetched>>

\* after the random delay: the max-pages test, then the next-page link
NextPage ==
    /\ pc = "next"
    /\ IF reached_max_pages(max_pages, page_num) THEN
           /\ pc' = "finally"
           /\ err' = "maxpages"
           /\ UNCHANGED <<url, page_num, attempt, retry_delay, tries, slept>>
       ELSE IF getnextpage(data) = None THEN
           /\ pc' = "finally"
           /\ err' = "nonext"
           /\ UNCHANGED <<url, page_num, attempt, retry_delay, tries, slept>>
       ELSE
           /\ url' = getnextpage(data)
           /\ page_num' = page_num + 1
           /\ pc' = "fetch"
           /\ attempt' = 0
           /\ retry_delay' = retry_delay_default
           /\ tries' = 0
           /\ slept' = <<>>
           /\ err' = err
    /\ UNCHANGED jobVars
    /\ UNCHANGED <<queries, properties, progress, now, runs, sel, max_pages,
                   query_id, total_listings, data, li, new_count,
                   startProgress, firstFetch, last, persisted, seen, ops, ret, arch, base, fetched>>

\* except Exception of the page: save_progress(page_num, url, query_id), raise
ExceptHandler ==
    /\ pc = "except"
    /\ LET raised == except_clause(progress, page_num, url, query_id, now, err)
       IN  progress' = raised.progress /\ err' = raised.err
    /\ pc' = "finally"
    /\ UNCHANGED jobVars
    /\ UNCHANGED <<queries, properties, now, runs, sel, max_pages, query_id,
                   url, page_num, total_listings, attempt, retry_delay, data,
                   li, new_count, startProgress, firstFetch, tries, slept,
                   last, persisted, seen, ops, ret, arch, base, fetched>>

\* the finally clause, then the process ends (err is how the loop was left)
Finally ==
    /\ pc = "finally"
    /\ progress' = finally_progress(progress, err)
    /\ EndRun(err)
    /\ UNCHANGED jobVars
    /\ UNCHANGED <<queries, properties, now, runs, persisted, seen, ops, ret>>

\* KeyboardInterrupt (Ctrl-C) is no Exception: the except clause is skipped
\* and the finally clause runs
Interrupt ==
    /\ pc \in {"fetch", "listings", "lastrun", "next", "except"}
    /\ pc' = "finally"
    /\ err' = "interrupt"
    /\ UNCHANGED jobVars
    /\ UNCHANGED <<queries, properties, progress, now, runs, sel, max_pages,
                   query_id, url, page_num, total_listings, attempt,
                   retry_delay, data, li, new_count, startProgress, firstFetch,
                   tries, slept, last, persisted, seen, ops, ret, arch, base, fetched>>

\* the process is terminated (SIGKILL, power loss): nothing more runs
Kill ==
    /\ pc \in {"fetch", "listings", "lastrun", "next", "except", "finally"}
    /\ EndRun("killed")
    /\ UNCHANGED jobVars
    /\ UNCHANGED <<queries, properties, progress, now, runs, persisted, seen,
                   ops, ret>>

\* terminated inside save_progress: open(path, 'w') has truncated the file
\* and json.dump has not completed
KillInSave ==
    /\ \/ pc = "listings" /\ li > Len(data.listings)
       \/ pc = "except"
    /\ progress' = Corrupt
    /\ EndRun("killed")
    /\ UNCHANGED jobVars
    /\ UNCHANGED <<queries, properties, now, runs, persisted, seen, ops, ret>>

Next ==
    \/ \E name \in QueryNames : CreateQuery(name)
    \/ \E name \in QueryNames, mp \in {0, 1} : StartRun(name, mp)
    \/ \E hasNext \in BOOLEAN : FetchOk(hasNext)
    \/ FetchTransient
    \/ FetchOther
    \/ \E outcome \in {"path", "none", "raise"} : ProcessListing(outcome)
    \/ SaveProgress
    \/ TouchLastRun
    \/ NextPage
    \/ ExceptHandler
    \/ Finally
    \/ Interrupt
    \/ Kill
    \/ KillInSave

Spec == Init /\ [][Next]_vars

\* a step of the crawl process itself
RunStep ==
    \/ \E hasNext \in BOOLEAN : FetchOk(hasNext)
    \/ FetchTransient
    \/ FetchOther
    \/ \E outcome \in {"path", "none", "raise"} : ProcessListing(outcome)
    \/ SaveProgress
    \/ TouchLastRun
    \/ NextPage
    \/ ExceptHandler
    \/ Finally

\* Next with no more than MaxLiveRuns runs
NextLive ==
    \/ \E name \in QueryNames : CreateQuery(name)
    \/ \E name \in QueryNames, mp \in {0, 1} :
          runs < MaxLiveRuns /\ StartRun(name, mp)
    \/ RunStep
    \/ Interrupt
    \/ Kill
    \/ KillInSave

\* the crawl is one sequential process with no blocking call other than
\* driver.get, the archiver's requests (both with timeouts) and sleeps: a
\* started process keeps taking its next step
SpecLive == Init /\ [][NextLive]_vars /\ WF_vars(RunStep)

\* ------------------------------------------------- the store called directly
\* inputs of upsert_property: listings that differ in every mutable field
\* (pesos 150000, dollars 100.4, a price of 0 and no price), for two addresses that
\* differ in case only, the empty and the absent address, with and without a
\* timestamp
StoreInput(addr, v, ts) ==
    IF v = 1
    THEN [address |-> addr, currency |-> "$", price |-> 150000 * PriceScale,
          expenses |-> 30000, size |-> 95, bedrooms |-> 3, bathrooms |-> 2,
          listing_url |-> "l1", website |-> website,
          url |-> [q |-> "A", p |-> 1], description |-> "d1", timestamp |-> ts]
    ELSE IF v = 2
    THEN [address |-> addr, currency |-> "USD", price |-> 1004,
          expenses |-> 0, size |-> NULL, bedrooms |-> NULL, bathrooms |-> 1,
          listing_url |-> "l2", website |-> "csv",
          url |-> [q |-> "B", p |-> 2], description |-> "d2", timestamp |-> ts]
    ELSE [address |-> addr, currency |-> "$",
          price |-> IF v = 3 THEN 0 ELSE NULL,
          expenses |-> 0, size |-> 80, bedrooms |-> 1, bathrooms |-> NULL,
          listing_url |-> "l3", website |-> "csv",
          url |-> [q |-> "B", p |-> 1], description |-> NullStr,
          timestamp |-> ts]

StoreInputs ==
    {StoreInput("X", v, ts) : v \in {1, 2}, ts \in {NULL, 5}}
    \cup {StoreInput("x", v, NULL) : v \in {2, 3, 4}}
    \cup {StoreInput("", 1, NULL),
          StoreInput(NullStr, 2, NULL)}

\* db.upsert_property(property_data, query_id), returning or raising
UpsertProperty(d, qid) ==
    /\ ops < MaxStoreOps
    /\ ops' = ops + 1
    /\ LET r == upsert_property(properties, d, qid, now)
       IN  /\ properties' = r.props
           /\ ret' = [call |-> "upsert", ok |-> r.ok, is_new |-> r.is_new,
                      id |-> r.id, address |-> d.address,
                      currency |-> d.currency, price |-> d.price]
    /\ seen' = Seen(seen, d, qid)
    /\ UNCHANGED jobVars
    /\ UNCHANGED <<queries, progress, now, runs, runVars, startProgress,
                   firstFetch, tries, slept, last, persisted, arch, base, fetched>>

\* time passes between two calls
Tick ==
    /\ now < MaxClock
    /\ now' = now + 1
    /\ UNCHANGED jobVars
    /\ UNCHANGED <<queries, properties, progress, runs, runVars, ghostVars, ops, ret>>

NextStore ==
    \/ \E d \in StoreInputs, qid \in {1, 2} : UpsertProperty(d, qid)
    \/ Tick

SpecStore == Init /\ [][NextStore]_vars

(***************************************************************************)
(* The store under all of its writers: upserts, the filter pass's status   *)
(* updates and reset, and the archiver's path update.                      *)
(***************************************************************************)
\* a listing as the filter pass reads it
FilterInput(addr, currency, price, expenses, size) ==
    [StoreInput(addr, 1, NULL) EXCEPT !.currency = currency, !.price = price,
                                      !.expenses = expenses, !.size = size]

\* 800 dollars with 95 m2, the same with 80 m2, 1000 dollars of rent and
\* 1000 of expenses in pesos with no size, the limits (300 dollars in pesos
\* with 90 m2, 1500 dollars with no size), and a listing with a price of 0
FilterInputs ==
    {FilterInput("X", "USD", 800 * PriceScale, 0, 95),
     FilterInput("X", "USD", 800 * PriceScale, 0, 80),
     FilterInput("x", "$", 1000 * dollarblue * PriceScale, 1000 * dollarblue,
                 NULL),
     FilterInput("x", "$", 200 * dollarblue * PriceScale, 100 * dollarblue,
                 90),
     FilterInput("X", "USD", 1500 * PriceScale, 0, NULL),
     StoreInput("x", 3, NULL)}

\* db.update_property_filtered_status(prop['id'], passed, price_total_usd)
SetFilterStatus(id, passed, price_total_usd) ==
    /\ ops < MaxStoreOps
    /\ ops' = ops + 1
    /\ properties' = update_property_filtered_status(properties, id, passed,
                                                     price_total_usd, now)
    /\ ret' = [call |-> "filter", id |-> id, passed |-> passed,
               price_total_usd |-> price_total_usd]
    /\ UNCHANGED jobVars
    /\ UNCHANGED <<queries, progress, now, runs, runVars, ghostVars>>

\* db.reset_filtered_status()
ResetFilterStatus ==
    /\ ops < MaxStoreOps
    /\ ops' = ops + 1
    /\ properties' = reset_filtered_status(properties)
    /\ ret' = [call |-> "reset"]
    /\ UNCHANGED jobVars
    /\ UNCHANGED <<queries, progress, now, runs, runVars, ghostVars>>

\* db.update_archived_path(prop_id, archived_path)
SetArchivedPath(id) ==
    /\ ops < MaxStoreOps
    /\ ops' = ops + 1
    /\ properties' =
          update_archived_path(properties, id,
              archive_path(id, properties[id].address, now))
    /\ ret' = [call |-> "archive", id |-> id]
    /\ UNCHANGED jobVars
    /\ UNCHANGED <<queries, progress, now, runs, runVars, ghostVars>>

\* cleaning.apply_filters()
ApplyFilters ==
    /\ ops < MaxStoreOps
    /\ ops' = ops + 1
    /\ properties' = apply_filters(properties, now)
    /\ ret' = [call |-> "pass", at |-> now,
               again |-> (ret # None /\ ret.call = "pass"
                            /\ DayOf(ret.at) = DayOf(now))]
    /\ UNCHANGED jobVars
    /\ UNCHANGED <<queries, progress, now, runs, runVars, ghostVars>>

NextFilter ==
    \/ \E d \in FilterInputs : UpsertProperty(d, 1)
    \/ \E id \in DOMAIN properties, passed \in BOOLEAN,
          price_total_usd \in {NULL, 800} :
            SetFilterStatus(id, passed, price_total_usd)
    \/ ResetFilterStatus
    \/ ApplyFilters
    \/ \E id \in DOMAIN properties : SetArchivedPath(id)
    \/ Tick

SpecFilter == Init /\ [][NextFilter]_vars

(***************************************************************************)
(* fix_geocoding.main: the lookups of the failed addresses run in a pool   *)
(* of worker threads, in any order; the main thread takes each finished    *)
(* future from as_completed and merges its result under cache_lock.  The   *)
(* pool's size only rules some of these orders out.                        *)
(***************************************************************************)
\* what geocode_single_address returns for an address: a location, or None
\* when cleaning changes nothing, the geocoder finds nothing or it raises
geocode_single_address(addr, known) ==
    IF addr \in known THEN [latitude |-> addr, longitude |-> addr + 100]
    ELSE None

\* a merge that does not count the lookups that gave nothing
merge_result_skips_failures(c, file, sc, fc, addr, result) ==
    IF result # None THEN
        [cache |-> [c EXCEPT ![addr] = result],
         success_count |-> sc + 1, still_failed_count |-> fc,
         geocache |-> IF (sc + 1) % SaveEvery = 0
                      THEN [c EXCEPT ![addr] = result] ELSE file]
    ELSE
        [cache |-> c, success_count |-> sc, still_failed_count |-> fc,
         geocache |-> file]

\* the body of 'with cache_lock:': the result goes into the cache and is
\* counted, and every SaveEvery successes the cache is saved
merge_result(c, file, sc, fc, addr, result) ==
    IF result # None THEN
        [cache |-> [c EXCEPT ![addr] = result],
         success_count |-> sc + 1, still_failed_count |-> fc,
         geocache |-> IF (sc + 1) % SaveEvery = 0
                      THEN [c EXCEPT ![addr] = result] ELSE file]
    ELSE
        [cache |-> c, success_count |-> sc, still_failed_count |-> fc + 1,
         geocache |-> file]

\* the geocoder finds every address, or every address but the first
KnownSets == {1..MaxFailed, 2..MaxFailed}

\* main up to the submission of the tasks: the cache file has one located
\* address and n failed ones
GeoStart(n, known) ==
    /\ gpc = "idle"
    /\ LET loaded == [a \in 0..n |->
                        IF a = 0 THEN [latitude |-> 0, longitude |-> 100]
                        ELSE [latitude |-> NULL, longitude |-> NULL]]
           failed == {a \in DOMAIN loaded : loaded[a].latitude = NULL}
       IN  /\ cache' = loaded
           /\ geocache' = loaded
           /\ IF failed = {} THEN gpc' = "done" /\ futures' = futures
              ELSE gpc' = "wait" /\ futures' = [a \in failed |-> "running"]
    /\ found' = known
    /\ success_count' = 0
    /\ still_failed_count' = 0
    /\ UNCHANGED <<cache_lock, future>>
    /\ UNCHANGED <<crawlVars, archVars, alertVars>>

\* a worker thread returns from geocode_single_address
Lookup(addr) ==
    /\ gpc # "idle"
    /\ addr \in DOMAIN futures
    /\ futures[addr] = "running"
    /\ futures' = [futures EXCEPT ![addr] = "done"]
    /\ UNCHANGED <<cache, geocache, found, success_count, still_failed_count,
                   cache_lock, gpc, future>>
    /\ UNCHANGED <<crawlVars, archVars, alertVars>>

\* as_completed hands a finished future to the loop of the main thread,
\* which prints its message and enters 'with cache_lock:' (no other thread
\* ever takes the lock)
AsCompleted(addr) ==
    /\ gpc = "wait"
    /\ addr \in DOMAIN futures
    /\ futures[addr] = "done"
    /\ futures' = [futures EXCEPT ![addr] = "yielded"]
    /\ future' = addr
    /\ ~cache_lock
    /\ cache_lock' = TRUE
    /\ gpc' = "merge"
    /\ UNCHANGED <<cache, geocache, found, success_count, still_failed_count>>
    /\ UNCHANGED <<crawlVars, archVars, alertVars>>

\* the body of the with block, then the lock is released
Merge ==
    /\ gpc = "merge"
    /\ LET m == merge_result(cache, geocache, success_count,
                             still_failed_count, future,
                             geocode_single_address(future, found))
       IN  /\ cache' = m.cache
           /\ geocache' = m.geocache
           /\ success_count' = m.success_count
           /\ still_failed_count' = m.still_failed_count
    /\ cache_lock' = FALSE
    /\ future' = NULL
    /\ gpc' = "wait"
    /\ UNCHANGED <<futures, found>>
    /\ UNCHANGED <<crawlVars, archVars, alertVars>>

\* as_completed is exhausted, the pool is shut down: the final save
FinalSave ==
    /\ gpc = "wait"
    /\ \A a \in DOMAIN futures : futures[a] = "yielded"
    /\ geocache' = cache
    /\ gpc' = "done"
    /\ UNCHANGED <<cache, futures, found, success_count, still_failed_count,
                   cache_lock, future>>
    /\ UNCHANGED <<crawlVars, archVars, alertVars>>

NextGeo ==
    \/ \E n \in 0..MaxFailed, known \in KnownSets : GeoStart(n, known)
    \/ \E addr \in 1..MaxFailed : Lookup(addr)
    \/ \E addr \in 1..MaxFailed : AsCompleted(addr)
    \/ Merge
    \/ FinalSave

SpecGeo == Init /\ [][NextGeo]_vars

(***************************************************************************)
(* archive.py called directly: snapshots are made and looked up for two    *)
(* ids, for addresses of which two have the same sanitized form, and for   *)
(* times of which two are on the same day.                                 *)
(***************************************************************************)
ArchiveAddresses == {"X", "N/A", "N_A"}

\* archive_property_page(property_id, address, listing_url, date_scraped):
\* None without a listing URL and when a request or a write fails, else
\* index.html is written and its relative path returned
ArchivePropertyPage(property_id, address, listing_url, date_scraped, ok) ==
    /\ requests < MaxArchives
    /\ LET path == archive_path(property_id, address, date_scraped)
           result == IF listing_url # "" /\ ok THEN path ELSE None
       IN  /\ requests' = IF listing_url = "" THEN requests ELSE requests + 1
           /\ links' = IF result # None THEN links \cup {path} ELSE links
           /\ returned' =
                 IF result # None
                 THEN returned \cup {[id |-> property_id, address |-> address,
                                      date |-> date_scraped, path |-> result]}
                 ELSE returned
           /\ aret' = [call |-> "archive", id |-> property_id,
                       address |-> address, date |-> date_scraped,
                       result |-> result]
    /\ UNCHANGED <<crawlVars, geoVars, alertVars>>

\* get_archive_path(property_id, address, date_scraped)
GetArchivePath(property_id, address, date_scraped) ==
    /\ aret' = [call |-> "get", id |-> property_id, address |-> address,
                date |-> date_scraped,
                result |-> get_archive_path(links, property_id, address,
                                            date_scraped)]
    /\ UNCHANGED <<links, returned, requests>>
    /\ UNCHANGED <<crawlVars, geoVars, alertVars>>

NextArchive ==
    \/ \E id \in {1, 2}, address \in ArchiveAddresses,
          listing_url \in {"", "l1"}, date \in 0..MaxClock, ok \in BOOLEAN :
            ArchivePropertyPage(id, address, listing_url, date, ok)
    \/ \E id \in {1, 2}, address \in ArchiveAddresses, date \in 0..MaxClock :
            GetArchivePath(id, address, date)

SpecArchive == Init /\ [][NextArchive]_vars

(***************************************************************************)
(* alerts.send_messages_batch: the summary, the first max_messages         *)
(* listing messages, the notice of the rest.  Every bot.send_message       *)
(* either delivers the text or raises.                                     *)
(***************************************************************************)
\* messages[:max_messages]: how many listings the loop goes through
listings_to_send(n) == IF n > max_messages THEN max_messages ELSE n

\* main: summary and messages of a listings file that is not empty
AlertStart(n) ==
    /\ apc = "idle"
    /\ messages' = n
    /\ attempts' = <<>>
    /\ mi' = 0
    /\ apc' = "summary"
    /\ UNCHANGED <<crawlVars, geoVars, archVars>>

\* await bot.send_message(text=summary): outside any try, a failure ends
\* the coroutine
SendSummary(ok) ==
    /\ apc = "summary"
    /\ attempts' = Append(attempts, [kind |-> "summary", n |-> 0, ok |-> ok])
    /\ IF ok THEN apc' = "listings" /\ mi' = 1
       ELSE apc' = "raised" /\ mi' = mi
    /\ UNCHANGED messages
    /\ UNCHANGED <<crawlVars, geoVars, archVars>>

\* one pass of the loop: a failure is printed and the loop goes on
SendListing(ok) ==
    /\ apc = "listings"
    /\ mi <= listings_to_send(messages)
    /\ attempts' = Append(attempts, [kind |-> "listing", n |-> mi, ok |-> ok])
    /\ mi' = mi + 1
    /\ UNCHANGED <<messages, apc>>
    /\ UNCHANGED <<crawlVars, geoVars, archVars>>

\* after the loop: with more than max_messages listings the notice of the
\* remaining ones is sent, outside any try
SendNotice(ok) ==
    /\ apc = "listings"
    /\ mi > listings_to_send(messages)
    /\ IF messages > max_messages THEN
           /\ attempts' = Append(attempts,
                              [kind |-> "more", n |-> messages - max_messages,
                               ok |-> ok])
           /\ apc' = IF ok THEN "done" ELSE "raised"
       ELSE
           /\ ok
           /\ attempts' = attempts
           /\ apc' = "done"
    /\ UNCHANGED <<messages, mi>>
    /\ UNCHANGED <<crawlVars, geoVars, archVars>>

NextAlerts ==
    \/ \E n \in 1..MaxMessages : AlertStart(n)
    \/ \E ok \in BOOLEAN : SendSummary(ok)
    \/ \E ok \in BOOLEAN : SendListing(ok)
    \/ \E ok \in BOOLEAN : SendNotice(ok)

SpecAlerts == Init /\ [][NextAlerts]_vars

\* ------------------------------------------------------------------ claims
IsCheckpoint(file) == file # None /\ file # Corrupt

\* the run found a checkpoint of its own query
FoundOwnCheckpoint ==
    IsCheckpoint(startProgress) /\ startProgress.query_id = query_id

RowOf(a) == properties[CHOOSE i \in RowsByAddress(properties, a) : TRUE]

SameMutableFields(row, d) ==
    /\ row.currency = d.currency /\ row.price = d.price
    /\ row.expenses = d.expenses /\ row.size = d.size
    /\ row.bedrooms = d.bedrooms /\ row.bathrooms = d.bathrooms
    /\ row.listing_url = d.listing_url /\ row.website = d.website
    /\ row.url = d.url /\ row.description = d.description

\* the pages of query name's chain that a run fetching from u on never fetches
Skipped(name, u) ==
    IF u.q = name THEN {[q |-> name, p |-> i] : i \in 1..(u.p - 1)}
    ELSE {[q |-> name, p |-> i] : i \in 1..MaxSitePages}

\* C1: an address that was upserted has exactly one row; the row's timestamp
\* is the one its first insert wrote, and its mutable fields and query_id are
\* those of the latest upsert. An address never upserted has no row.
C1_UpsertKeepsFirstTimestamp ==
    \A a \in Addresses :
        IF seen[a] = None THEN RowsByAddress(properties, a) = {}
        ELSE /\ Cardinality(RowsByAddress(properties, a)) = 1
             /\ RowOf(a).timestamp = seen[a].ts
             /\ SameMutableFields(RowOf(a), seen[a].inp)
             /\ RowOf(a).query_id = seen[a].qid

\* C1 witness: an address inserted at time 0 and upserted again later with
\* input that differs from the first in its fields
C1_Witness ==
    \E a \in Addresses :
        /\ seen[a] # None
        /\ seen[a].first.currency # seen[a].inp.currency
        /\ seen[a].first.price # seen[a].inp.price
        /\ RowOf(a).timestamp = 0
        /\ RowOf(a).last_updated > 0

\* C2: a run that found a checkpoint of its own query makes its first fetch
\* at the checkpoint's URL with the checkpoint's page number
C2_ResumesAtCheckpoint ==
    (firstFetch # None /\ FoundOwnCheckpoint) =>
        firstFetch = [url |-> startProgress.last_url,
                      page |-> startProgress.last_page]

\* C2 witness: the first fetch of a run resumed from a checkpoint at page 2
C2_Witness ==
    /\ firstFetch # None
    /\ FoundOwnCheckpoint
    /\ startProgress.last_page = 2
    /\ firstFetch.url # build_query_url(sel)

\* C3 as claimed: after a run that ended on an error exit the checkpoint
\* file holds a checkpoint
C3_ErrorExitKeepsCheckpoint ==
    (pc = "idle" /\ last.exit \in {"retries", "other"}) =>
        IsCheckpoint(progress)

\* C4: after a run that ended because the last page had no next-page link
\* there is no checkpoint file
C4_NoNextPageClearsCheckpoint ==
    (pc = "idle" /\ last.exit = "nonext") => progress = None

\* C4 witness: a run has ended on a page without a next link
C4_Witness ==
    pc = "idle" /\ last.exit = "nonext" /\ progress = None

\* C5 as claimed: after a run stopped by max-pages while the site had a
\* further page the checkpoint file holds a checkpoint
C5_MaxPagesKeepsCheckpoint ==
    (pc = "idle" /\ last.exit = "maxpages" /\ last.more) =>
        IsCheckpoint(progress)

\* C5 amended: after a run stopped by max-pages while the site had a further
\* page there is no checkpoint file
C5_MaxPagesClearsCheckpoint ==
    (pc = "idle" /\ last.exit = "maxpages" /\ last.more) => progress = None

\* C5 witness: a run has ended by max-pages on a page with a next link
C5_Witness ==
    pc = "idle" /\ last.exit = "maxpages" /\ last.more /\ progress = None

\* C6 as claimed: the run that follows a run of the same query that
\* exhausted its retries on a page makes its first fetch at that page
C6_RerunStartsAtFailedPage ==
    (firstFetch # None /\ last.exit = "retries" /\ last.query_id = query_id) =>
        firstFetch = [url |-> last.url, page |-> last.page_num]

\* C7: in a run that follows a terminated run of the same query, every page
\* of the query before the URL being crawled was fully persisted before
C7_RerunSkipsNoUnpersistedPage ==
    (pc # "idle" /\ last.exit = "killed" /\ last.query_id = query_id) =>
        Skipped(sel, url) \subseteq persisted

\* C7 witness: a rerun after a termination resumes beyond page 1
C7_Witness ==
    /\ pc = "fetch" /\ firstFetch = None
    /\ last.exit = "killed" /\ last.query_id = query_id
    /\ url.p = 2

\* C8: a run that found no checkpoint of its own query starts at page 1 with
\* the query's first-page URL, and no checkpoint file exists at its first fetch
C8_FreshStartDiscardsStaleCheckpoint ==
    ~FoundOwnCheckpoint =>
        /\ (pc = "fetch" /\ firstFetch = None) =>
              /\ page_num = 1
              /\ url = build_query_url(sel)
              /\ progress = None
        /\ firstFetch # None =>
              firstFetch = [url |-> build_query_url(sel), page |-> 1]

\* C8 witness: a run about to make its first fetch found another query's
\* checkpoint
C8_Witness ==
    /\ pc = "fetch" /\ firstFetch = None
    /\ IsCheckpoint(startProgress)
    /\ startProgress.query_id # query_id

\* C9 as claimed: the permanent failure is raised after max_retries retries
C9_PermanentAfterNRetries ==
    err = "retries" => Len(slept) = max_retries

\* C9 amended: the permanent failure is raised after max_retries attempts,
\* max_retries - 1 of them retries, and the run then only handles the error
C9_PermanentAfterNAttempts ==
    err = "retries" =>
        /\ tries = max_retries
        /\ Len(slept) = max_retries - 1
        /\ pc \in {"except", "finally"}

\* C9 witness: the permanent failure went through the except clause
C9_Witness ==
    pc = "finally" /\ err = "retries"

\* C10: a fetch fails permanently only after max_retries failures; after
\* fewer failures a success hands the fetched page to the listing loop
C10_SuccessAfterFewerFailures ==
    /\ err \in {"retries", "nodata"} => tries >= max_retries
    /\ (pc = "listings" /\ tries >= 2) =>
          /\ tries <= max_retries
          /\ data # None /\ data.url = url
          /\ err = "none"

\* C10 witness: max_retries - 1 failures, then the page is being processed
C10_Witness ==
    pc = "listings" /\ tries = max_retries /\ li > 1

\* C11: the delays slept in one getdata_with_retry call start at the base
\* delay, and each later one is double the one before it, so greater
C11_DelaysDouble ==
    \A i \in 1..Len(slept) :
        IF i = 1 THEN slept[i] = retry_delay_default
        ELSE slept[i] = 2 * slept[i - 1] /\ slept[i] > slept[i - 1]

\* C11 witness: a call has slept before two successive retries
C11_Witness ==
    Len(slept) >= 2 /\ pc = "fetch"

\* ---------------------------------------------------------------- the store
\* the step is a direct upsert_property call
UpsertStep == ops' # ops /\ ret'.call = "upsert"

\* the latest direct call of the store was an upsert_property
Upserted == ret # None /\ ret.call = "upsert"

\* C12: upsert_property leaves is_filtered, filtered_at and price_total_usd
\* of every record that existed as they were, and a record it inserts has
\* is_filtered false and no filtered_at and no price_total_usd
C12_UpsertLeavesFilterFields ==
    [][UpsertStep =>
        /\ \A i \in DOMAIN properties :
              \E j \in DOMAIN properties' :
                  /\ properties'[j].id = properties[i].id
                  /\ properties'[j].is_filtered = properties[i].is_filtered
                  /\ properties'[j].filtered_at = properties[i].filtered_at
                  /\ properties'[j].price_total_usd
                        = properties[i].price_total_usd
        /\ \A j \in DOMAIN properties' :
              (\A i \in DOMAIN properties :
                    properties[i].id # properties'[j].id)
              => /\ properties'[j].is_filtered = FALSE
                 /\ properties'[j].filtered_at = NULL
                 /\ properties'[j].price_total_usd = NULL]_vars

\* C12 witness: the latest call was an upsert that updated a record which the
\* filter pass had marked, and the marks are still there
C12_Witness ==
    /\ Upserted /\ ret.ok /\ ~ret.is_new
    /\ \E i \in DOMAIN properties :
          /\ properties[i].id = ret.id
          /\ properties[i].is_filtered
          /\ properties[i].filtered_at # NULL
          /\ properties[i].price_total_usd # NULL

\* C13: upsert_property with an empty or an absent address raises and leaves
\* the store as it was
C13_NoAddressRejected ==
    [][(UpsertStep /\ ret'.address \in {"", NullStr})
        => ~ret'.ok /\ properties' = properties]_vars

\* C13 witness: the latest call, on a store that holds records, was given an
\* empty or absent address and raised
C13_Witness ==
    /\ Upserted /\ ret.address \in {"", NullStr} /\ ~ret.ok
    /\ Len(properties) >= 1

\* n is an integer nearest to p / d
IsNearest(n, p, d) ==
    \/ n = p \div d /\ 2 * (p % d) <= d
    \/ n = (p \div d) + 1 /\ 2 * (p % d) >= d

\* what one dollar is in the units of a price in the given currency
UnitsPerDollar(currency) ==
    IF currency = "$" THEN PESO_TO_USD * PriceScale ELSE PriceScale

\* C14 as stated: price_dollars of every record is price / 1500 rounded to
\* the nearest integer for currency "$" and price rounded to the nearest
\* integer for any other currency
C14_PriceDollarsAlwaysNormalized ==
    \A i \in DOMAIN properties :
        IsNearest(properties[i].price_dollars, properties[i].price,
                  UnitsPerDollar(properties[i].currency))

\* C14: price_dollars of every record with a price other than 0 is
\* price / 1500 rounded to the nearest integer for currency "$" and price
\* rounded to the nearest integer otherwise ("$" 150000 gives 100, "USD" 100.4
\* gives 100); with no price or a price of 0 it is null
C14_PriceDollarsNormalizedOrNull ==
    \A i \in DOMAIN properties :
        LET row == properties[i]
        IN  /\ IF row.price > 0
               THEN IsNearest(row.price_dollars, row.price,
                              UnitsPerDollar(row.currency))
               ELSE row.price_dollars = NULL
            /\ (row.currency = "$" /\ row.price = 150000 * PriceScale)
                  => row.price_dollars = 100
            /\ (row.currency = "USD" /\ row.price = 1004)
                  => row.price_dollars = 100

\* C14 witness: an upsert has updated a record to 100.4 dollars, which are
\* stored as 100, while another record has a price of 0 and no price_dollars
C14_Witness ==
    /\ Upserted /\ ret.ok /\ ~ret.is_new /\ ret.price = 1004
    /\ \E i, j \in DOMAIN properties :
          /\ properties[i].id = ret.id
          /\ properties[i].price = 1004 /\ properties[i].price_dollars = 100
          /\ properties[j].price = 0 /\ properties[j].price_dollars = NULL

\* C15: upsert_property returns is_new = TRUE exactly when the store held no
\* record of the address, the id it returns is the id of the record of that
\* address, and that is the id the record had before
C15_IsNewAndStableId ==
    [][(UpsertStep /\ ret'.ok) =>
        /\ ret'.is_new = (RowsByAddress(properties, ret'.address) = {})
        /\ RowsByAddress(properties', ret'.address) # {}
        /\ \A j \in RowsByAddress(properties', ret'.address) :
              properties'[j].id = ret'.id
        /\ \A i \in RowsByAddress(properties, ret'.address) :
              properties[i].id = ret'.id]_vars

\* C15 witness: with two records stored, a later upsert of the first address
\* returned is_new = FALSE and the first record's id
C15_Witness ==
    /\ Upserted /\ ret.ok /\ ~ret.is_new /\ ret.id = 1
    /\ Len(properties) = 2
    /\ properties[1].address = ret.address

\* C16: no step of any writer of the store removes a record or changes its
\* id: every address stored before the step is stored after it under the
\* same id
C16_NoRecordDeleted ==
    [][\A i \in DOMAIN properties :
          \E j \in DOMAIN properties' :
              /\ properties'[j].address = properties[i].address
              /\ properties'[j].id = properties[i].id]_vars

\* C16 witness: the first record is still stored under id 1 after a path
\* update and a later upsert of its address
C16_Witness ==
    /\ Len(properties) >= 1
    /\ properties[1].id = 1
    /\ properties[1].archived_path # None
    /\ Upserted /\ ret.ok /\ ~ret.is_new /\ ret.id = 1

\* C17: get_property_by_address finds a record exactly for the strings that
\* were upserted as addresses, the record found has that very string as its
\* address and the latest values upserted for it, and two different
\* addresses have two different records
C17_ExactAddressIdentity ==
    /\ \A a \in Addresses :
          LET r == get_property_by_address(properties, a)
          IN  IF seen[a] = None THEN r = None
              ELSE /\ r # None
                   /\ r.address = a
                   /\ SameMutableFields(r, seen[a].inp)
    /\ \A a, b \in Addresses :
          (a # b /\ seen[a] # None /\ seen[b] # None)
          => get_property_by_address(properties, a).id
                # get_property_by_address(properties, b).id

\* C17 witness: two addresses that differ only in the case of one letter
\* have been upserted with different values and each lookup finds its own
C17_Witness ==
    /\ seen["X"] # None /\ seen["x"] # None
    /\ get_property_by_address(properties, "X") # None
    /\ get_property_by_address(properties, "x") # None
    /\ get_property_by_address(properties, "X").price
          # get_property_by_address(properties, "x").price

\* ---------------------------------------------------------------- the crawl
\* listing i of the fetched page raised, or the store holds its values
ListingDone(i) ==
    LET frag == data.listings[i]
    IN  \/ frag.bad
        \/ /\ RowsByAddress(properties, frag.address) # {}
           /\ SameMutableFields(RowOf(frag.address),
                                coerce(frag, data.url, now))

\* the fetched page has a listing that raises before one that does not
HasErrorThenGood ==
    \E i, j \in DOMAIN data.listings :
        i < j /\ data.listings[i].bad /\ ~data.listings[j].bad

\* C18: a listing that raises is skipped and nothing else: while the page is
\* processed every earlier listing that did not raise is in the store, and
\* once the page is done all of them are, the page is checkpointed and the
\* run has no error
C18_ListingErrorSkipsOnlyThatListing ==
    /\ pc = "listings"
          => \A i \in DOMAIN data.listings : i < li => ListingDone(i)
    /\ pc \in {"lastrun", "next"}
          => /\ \A i \in DOMAIN data.listings : ListingDone(i)
             /\ IsCheckpoint(progress)
             /\ progress.last_url = data.url
             /\ progress.last_page = page_num
             /\ err = "none"

\* C18 witness: the run is fetching the page after one whose first listing
\* raised, with the later listing of that page stored and the page
\* checkpointed
C18_Witness ==
    /\ pc = "fetch" /\ data # None /\ url = getnextpage(data)
    /\ HasErrorThenGood
    /\ \A i \in DOMAIN data.listings : ListingDone(i)
    /\ IsCheckpoint(progress) /\ progress.last_url = data.url

\* C19 as stated: a listing without an address is not persisted: the store
\* holds no record made from one
C19_NoAddressNotPersisted ==
    RowsByAddress(properties, NoAddress) = {}

\* C20: a listing that has an address and did not raise is in the store, and
\* each of size, bedrooms and bathrooms that it lacks is stored as null
C20_MissingFieldsStoredNull ==
    pc \in {"listings", "lastrun", "next"} =>
        \A i \in DOMAIN data.listings :
            LET frag == data.listings[i]
            IN  (i < li /\ ~frag.bad /\ frag.address # NoAddress) =>
                    /\ RowsByAddress(properties, frag.address) # {}
                    /\ frag.size = NA => RowOf(frag.address).size = NULL
                    /\ frag.bedrooms = NA
                          => RowOf(frag.address).bedrooms = NULL
                    /\ frag.bathrooms = NA
                          => RowOf(frag.address).bathrooms = NULL

\* C20 witness: a page is done whose listing has an address and none of
\* size, bedrooms and bathrooms, and its record holds null for the three
C20_Witness ==
    /\ pc = "next"
    /\ \E i \in DOMAIN data.listings :
          LET frag == data.listings[i]
          IN  /\ ~frag.bad /\ frag.address # NoAddress
              /\ frag.size = NA /\ frag.bedrooms = NA /\ frag.bathrooms = NA
              /\ RowOf(frag.address).url = data.url
              /\ RowOf(frag.address).size = NULL
              /\ RowOf(frag.address).bedrooms = NULL
              /\ RowOf(frag.address).bathrooms = NULL

\* listing i of the fetched page has been handled and did not raise
Persisted(i) ==
    /\ pc \in {"listings", "lastrun", "next"}
    /\ i \in DOMAIN data.listings /\ i < li
    /\ ~data.listings[i].bad

\* C21 as stated: each of expenses, size, bedrooms and bathrooms that the
\* extractor gave as 'N/A' is null in the record of the listing
C21_PlaceholdersStoredNull ==
    \A i \in 1..li :
        Persisted(i) =>
            LET frag == data.listings[i]
                row == RowOf(frag.address)
            IN  /\ frag.expenses = NA => row.expenses = NULL
                /\ frag.size = NA => row.size = NULL
                /\ frag.bedrooms = NA => row.bedrooms = NULL
                /\ frag.bathrooms = NA => row.bathrooms = NULL

\* C21: each of size, bedrooms and bathrooms that the extractor gave as 'N/A'
\* is null in the record of the listing, expenses given as 'N/A' are 0, and
\* none of the four is ever the placeholder
C21_PlaceholdersNullExpensesZero ==
    \A i \in 1..li :
        Persisted(i) =>
            LET frag == data.listings[i]
                row == RowOf(frag.address)
            IN  /\ frag.expenses = NA => row.expenses = 0
                /\ frag.size = NA => row.size = NULL
                /\ frag.bedrooms = NA => row.bedrooms = NULL
                /\ frag.bathrooms = NA => row.bathrooms = NULL
                /\ NA \notin {row.expenses, row.size, row.bedrooms,
                               row.bathrooms}

\* C21 witness: a page is done with a listing that had 'N/A' for expenses and
\* for size; its record has expenses 0 and no size
C21_Witness ==
    /\ pc = "next"
    /\ \E i \in DOMAIN data.listings :
          /\ Persisted(i)
          /\ data.listings[i].expenses = NA /\ data.listings[i].size = NA
          /\ RowOf(data.listings[i].address).url = data.url
          /\ RowOf(data.listings[i].address).expenses = 0
          /\ RowOf(data.listings[i].address).size = NULL

\* the step handles a listing for which archive_property_page was called
ArchiveStep == pc = "listings" /\ li' # li /\ arch' # None

\* C22: when the Archiver returns nothing or raises for a record just
\* inserted, the record is in the store, without a path, it is counted as
\* new, and the listing loop goes on with the next listing of the page with
\* no error raised
C22_ArchiveFailureKeepsRecord ==
    [][(ArchiveStep /\ arch'.path = None) =>
        /\ \E j \in DOMAIN properties' :
              /\ properties'[j].id = arch'.id
              /\ properties'[j].address = data.listings[li].address
              /\ properties'[j].archived_path = None
        /\ Len(properties') = Len(properties) + 1
        /\ new_count' = new_count + 1
        /\ pc' = "listings" /\ li' = li + 1 /\ err' = "none"]_vars

\* C22 witness: the run is fetching the next page after a page on which a
\* record was inserted and not archived; the page is checkpointed
C22_Witness ==
    /\ pc = "fetch" /\ data # None /\ url = getnextpage(data)
    /\ IsCheckpoint(progress) /\ progress.last_url = data.url
    /\ total_listings >= 1
    /\ \E i \in DOMAIN properties :
          /\ properties[i].url = data.url
          /\ properties[i].archived_path = None
          /\ properties[i].id > base

LastRun(qs, qid) ==
    LET hits == {i \in 1..Len(qs) : qs[i].id = qid}
    IN  IF hits = {} THEN NULL ELSE qs[CHOOSE i \in hits : TRUE].last_run

\* C24: once a page is processed the query's last_run is the time of the
\* run, and last_run is written only by the step that follows the page's
\* checkpoint, when every listing of the page has been handled: a fetch that
\* fails writes none
C24_LastRunAfterEachPage ==
    /\ [](pc = "next" =>
            /\ LastRun(queries, query_id) = now
            /\ IsCheckpoint(progress) /\ progress.last_url = url
            /\ \A i \in DOMAIN data.listings : ListingDone(i))
    /\ [][(\E i \in DOMAIN queries :
              i \in DOMAIN queries'
              /\ queries'[i].last_run # queries[i].last_run) =>
            /\ pc = "lastrun" /\ pc' = "next"
            /\ li > Len(data.listings)
            /\ IsCheckpoint(progress) /\ progress.last_url = url
            /\ progress.last_page = page_num
            /\ \A i \in DOMAIN queries :
                  queries[i].id # query_id => queries'[i] = queries[i]]_vars

\* C24 witness: a run whose fetch failed for good is ending with the
\* last_run that an earlier run wrote
C24_Witness ==
    /\ pc = "finally" /\ err = "retries"
    /\ LastRun(queries, query_id) # NULL
    /\ LastRun(queries, query_id) < now

\* C25: the total that the run reports is the number of records it has
\* inserted on the pages it has finished: between pages and at the end it
\* is the growth of the store since the run started, within a page the
\* page's own count is still to be added, and a run interrupted within a
\* page reports at most the growth less at most that page's count
C25_TotalIsInsertedCount ==
    /\ pc \in {"fetch", "lastrun", "next", "except"}
          => total_listings = Len(properties) - base
    /\ pc = "listings"
          => total_listings + new_count = Len(properties) - base
    /\ pc = "finally" =>
          IF err # "interrupt"
          THEN total_listings = Len(properties) - base
          ELSE /\ total_listings <= Len(properties) - base
               /\ total_listings + new_count >= Len(properties) - base

\* C25 witness: a run that inserted one record on its first page and
\* updated it on its second ends and reports 1
C25_Witness ==
    /\ pc = "finally" /\ err = "nonext" /\ page_num = 2
    /\ total_listings = 1 /\ Len(properties) - base = 1

\* ----------------------------------------------------------- the filter pass
\* the step is a direct call of the store of the given kind
CallStep(kind) == ops' # ops /\ ret'.call = kind

\* C26 as stated: update_property_filtered_status leaves the record with
\* is_filtered = passed, price_total_usd as given, filtered_at = now when
\* passed and filtered_at null when not passed
C26_SetFilterStatusSetsAll ==
    [][CallStep("filter") =>
        \A j \in DOMAIN properties' :
            properties'[j].id = ret'.id =>
                /\ properties'[j].is_filtered = ret'.passed
                /\ properties'[j].price_total_usd = ret'.price_total_usd
                /\ properties'[j].filtered_at
                      = IF ret'.passed THEN now ELSE NULL]_vars

\* C27: reset_filtered_status leaves every record with is_filtered false and
\* no filtered_at, adds and removes none, and leaves every other field of
\* every record as it was
C27_ResetChangesOnlyFilterMarks ==
    [][CallStep("reset") =>
        /\ Len(properties') = Len(properties)
        /\ \A i \in DOMAIN properties :
              /\ properties'[i].is_filtered = FALSE
              /\ properties'[i].filtered_at = NULL
              /\ [properties'[i] EXCEPT !.is_filtered = TRUE, !.filtered_at = 0]
                    = [properties[i] EXCEPT !.is_filtered = TRUE,
                                            !.filtered_at = 0]]_vars

\* C27 witness: the latest call was a reset, and a record that a status
\* update had given a total price has no mark and still that price
C27_Witness ==
    /\ ret # None /\ ret.call = "reset"
    /\ \E i \in DOMAIN properties :
          /\ properties[i].price_total_usd # NULL
          /\ ~properties[i].is_filtered
          /\ properties[i].filtered_at = NULL

\* C28: after a pass of apply_filters a record has is_filtered exactly when
\* its size is null or at least 90, its price_total_usd is from 300 to 1500
\* dollars, and its timestamp is of the day of the pass; so 95 m2 at 800
\* dollars of today passes, and 80 m2, 2000 dollars or yesterday do not
C28_PassMarksExactly ==
    [][CallStep("pass") =>
        \A i \in DOMAIN properties' :
            LET row == properties'[i]
                today == DayOf(row.timestamp) = DayOf(now)
            IN  /\ row.is_filtered <=>
                      /\ row.size = NULL \/ row.size >= 90
                      /\ row.price_total_usd # NULL
                      /\ row.price_total_usd >= 300 * UsdUnit
                      /\ row.price_total_usd <= 1500 * UsdUnit
                      /\ today
                /\ (row.size = 95 /\ row.price_total_usd = 800 * UsdUnit
                        /\ today) => row.is_filtered
                /\ (row.size = 80 \/ row.price_total_usd = 2000 * UsdUnit
                        \/ ~today) => ~row.is_filtered]_vars

\* C28 witness: the latest call was a pass; a record of 95 m2 at 800 dollars
\* of today is marked, one of 2000 dollars is not
C28_Witness ==
    /\ ret # None /\ ret.call = "pass" /\ ret.at = now
    /\ \E i, j \in DOMAIN properties :
          /\ properties[i].size = 95
          /\ properties[i].price_total_usd = 800 * UsdUnit
          /\ properties[i].is_filtered
          /\ properties[j].price_total_usd = 2000 * UsdUnit
          /\ ~properties[j].is_filtered

\* C29: a pass of apply_filters that follows another pass of the same day,
\* with no other call between them, leaves is_filtered and price_total_usd
\* of every record as the first pass left them
C29_PassIdempotent ==
    [][(CallStep("pass") /\ ret'.again) =>
        /\ Len(properties') = Len(properties)
        /\ \A i \in DOMAIN properties :
              /\ properties'[i].is_filtered = properties[i].is_filtered
              /\ properties'[i].price_total_usd
                    = properties[i].price_total_usd]_vars

\* C29 witness: two passes have run one after the other on the same day over
\* a record that passes and has a total price
C29_Witness ==
    /\ ret # None /\ ret.call = "pass" /\ ret.again
    /\ \E i \in DOMAIN properties :
          /\ properties[i].is_filtered
          /\ properties[i].price_total_usd # NULL

\* ---------------------------------------------------------------- queries
\* the stored queries of the given name
QueriesNamed(qs, name) == {i \in 1..Len(qs) : qs[i].name = name}

\* C30 as stated: a run that starts goes on to crawl with exactly one stored
\* query of its name; when the name had a query before, none is added and
\* the run has its id; and no name ever has two queries
C30_RunGetsOrCreatesQuery ==
    /\ [](\A name \in QueryNames :
            Cardinality(QueriesNamed(queries, name)) <= 1)
    /\ [][runs' # runs =>
            /\ pc' = "fetch"
            /\ Cardinality(QueriesNamed(queries', sel')) = 1
            /\ \A i \in QueriesNamed(queries', sel') :
                  query_id' = queries'[i].id
            /\ QueriesNamed(queries, sel') # {} => queries' = queries]_vars

\* C34 as stated: the checkpoint saved after page k names page k + 1
C34_CheckpointNamesNextPage ==
    pc = "lastrun" =>
        /\ IsCheckpoint(progress)
        /\ progress.last_page = page_num + 1

\* C34: the checkpoint saved after page k names page k itself, its number
\* and its URL, for the query of the run, and a run that resumes from a
\* checkpoint fetches the page the checkpoint names first
C34_CheckpointNamesPageDone ==
    /\ pc = "lastrun" =>
          /\ IsCheckpoint(progress)
          /\ progress.last_page = page_num
          /\ progress.last_url = url
          /\ progress.query_id = query_id
          /\ fetched[Len(fetched)].url = url
          /\ fetched[Len(fetched)].page = page_num
    /\ (pc # "idle" /\ FoundOwnCheckpoint /\ fetched # <<>>) =>
          /\ fetched[1].url = startProgress.last_url
          /\ fetched[1].page = startProgress.last_page

\* C34 witness: a run that resumed from the checkpoint of page 1 has fetched
\* page 1 again, processed it and saved the checkpoint of page 1
C34_Witness ==
    /\ pc = "lastrun" /\ FoundOwnCheckpoint
    /\ Len(fetched) = 1 /\ fetched[1].page = 1
    /\ startProgress.last_page = 1
    /\ progress.last_page = 1

\* C36: the pages a run gets have page numbers that grow by 1 and each one's
\* URL is the next-page link of the page before it, no two of them have the
\* same URL, and whenever the run is about to call driver.get after a page,
\* the listings of that page have all been handled, its checkpoint is the
\* one on disk, and the URL to get is the page's next-page link
C36_PagesInSequence ==
    /\ \A i \in 2..Len(fetched) :
          /\ fetched[i].page = fetched[i - 1].page + 1
          /\ fetched[i].url = fetched[i - 1].next
    /\ \A i, j \in 1..Len(fetched) :
          i # j => fetched[i].url # fetched[j].url
    /\ (pc = "fetch" /\ fetched # <<>>) =>
          LET prev == fetched[Len(fetched)]
          IN  /\ url = prev.next /\ page_num = prev.page + 1
              /\ data.url = prev.url /\ li > Len(data.listings)
              /\ prev.url \in persisted
              /\ IsCheckpoint(progress)
              /\ progress.last_url = prev.url
              /\ progress.last_page = prev.page
              /\ progress.query_id = query_id

\* C36 witness: a run has got pages 1 and 2 of a query, in that order, the
\* second after one failed attempt
C36_Witness ==
    /\ Len(fetched) = 2 /\ pc = "listings"
    /\ fetched[1].page = 1 /\ fetched[2].page = 2
    /\ fetched[2].url = fetched[1].next
    /\ Len(slept) = 1

\* the exceptions the except clause of the page loop catches
FatalErrors == {"retries", "nodata", "other"}

\* C35: once a page has ended in an exception, the run is in the except
\* clause or past it and never back in the page loop; when the exception
\* leaves the except clause the checkpoint of the page, for the query of the
\* run, is on disk, and the exception is still the one being propagated
C35_FatalErrorSavesThenRaises ==
    err \in FatalErrors =>
        /\ pc \in {"except", "finally"}
        /\ pc = "finally" =>
              /\ IsCheckpoint(progress)
              /\ progress.query_id = query_id
              /\ progress.last_page = page_num
              /\ progress.last_url = url

\* C35 witness: the second page of a run failed with an exception that is
\* not retried; the except clause has saved the checkpoint of page 2
C35_Witness ==
    /\ pc = "finally" /\ err = "other"
    /\ page_num = 2 /\ Len(fetched) = 1
    /\ IsCheckpoint(progress) /\ progress.last_page = 2

\* C37: archive_property_page is called for a listing exactly when its upsert
\* inserted a record, and for the id of that record; a listing whose record
\* existed gets no call, whether or not the record has a path
C37_ArchiveExactlyWhenNew ==
    [][(pc = "listings" /\ li' # li) =>
          /\ (arch' # None) <=> (Len(properties') = Len(properties) + 1)
          /\ arch' # None => arch'.id = Len(properties')]_vars

\* C37 witness: the listing just handled updated a record of an earlier run
\* that has no path, and archive_property_page was not called
C37_Witness ==
    /\ pc = "listings" /\ li > 1 /\ arch = None
    /\ ~data.listings[li - 1].bad
    /\ RowsByAddress(properties, data.listings[li - 1].address) # {}
    /\ LET row == RowOf(data.listings[li - 1].address)
       IN  /\ row.archived_path = None
           /\ row.url = data.url
           /\ row.id <= base

\* C38: every run that has started ends; a page is tried at most max_retries
\* times; a run gets no page after one that has no next-page link, and
\* with a max-pages limit no page after the first whose number reaches it
C38_RunEnds ==
    /\ (pc # "idle") ~> (pc = "idle")
    /\ [](/\ tries <= max_retries
          /\ \A i \in 2..Len(fetched) :
                /\ fetched[i - 1].next # None
                /\ max_pages # 0 => fetched[i - 1].page < max_pages)

\* C38 witness: a run has ended at the page without a next-page link, its
\* second, after max_retries tries of some page
C38_Witness ==
    /\ pc = "finally" /\ err = "nonext" /\ Len(fetched) = 2
    /\ tries = max_retries

\* C39: every record with is_filtered set has a filtered_at
C39_FilteredHasFilteredAt ==
    \A i \in DOMAIN properties :
        properties[i].is_filtered => properties[i].filtered_at # NULL

\* C39 witness: a record that a filter pass marked has been upserted again
\* and is still marked, with the time of the pass
C39_Witness ==
    /\ Upserted /\ ~ret.is_new
    /\ \E i \in DOMAIN properties :
          /\ properties[i].id = ret.id
          /\ properties[i].is_filtered
          /\ properties[i].filtered_at # NULL

\* the futures that as_completed has handed out
Yielded == {a \in DOMAIN futures : futures[a] = "yielded"}

\* C31: the result of a lookup is merged only while the lock is held; every
\* future handed out and merged is counted once, as a success or as still
\* failed; the cache is on disk after every SaveEvery-th success; and when
\* the job is done the two counts add up to the number of failed addresses
\* and the saved cache has the location of every address that was found
C31_NoOutcomeLost ==
    /\ gpc = "merge" <=> cache_lock
    /\ success_count + still_failed_count
          = Cardinality(Yielded) - (IF gpc = "merge" THEN 1 ELSE 0)
    /\ (success_count > 0 /\ success_count % SaveEvery = 0) =>
          geocache = cache
    /\ gpc = "done" =>
          /\ success_count + still_failed_count = Cardinality(DOMAIN futures)
          /\ \A a \in DOMAIN futures :
                a \in found =>
                    geocache[a] = geocode_single_address(a, found)

\* C31 witness: the job is done, one lookup gave nothing and others gave a
\* location, which the saved cache has
C31_Witness ==
    /\ gpc = "done"
    /\ still_failed_count = 1 /\ success_count >= 2
    /\ geocache[2].latitude # NULL

\* a successful archiving and a call are for the same id, sanitized address
\* and day
SameArchiveKey(r, a) ==
    /\ r.id = a.id
    /\ sanitize_filename(r.address) = sanitize_filename(a.address)
    /\ DayOf(r.date) = DayOf(a.date)

Sends(kind, n) ==
    {k \in DOMAIN attempts : attempts[k].kind = kind /\ attempts[k].n = n}

\* C33: when send_messages_batch has ended, whatever sends failed, each of
\* the first max_messages listings was sent once and no other listing, and
\* with more than max_messages listings one notice of exactly the number
\* beyond max_messages was sent
C33_PartialFailureTolerated ==
    apc \in {"done", "raised"} =>
        /\ \A i \in 1..messages :
              Cardinality(Sends("listing", i))
                  = IF i <= max_messages THEN 1 ELSE 0
        /\ messages > max_messages =>
              /\ Cardinality(Sends("more", messages - max_messages)) = 1
              /\ Cardinality({k \in DOMAIN attempts :
                                  attempts[k].kind = "more"}) = 1

====
